---- MODULE Spec2Model ----
(***************************************************************************)
(* The blog's content core (lib: readMatter, processor, getPostById,       *)
(* getPostInfosOrderedByDateDesc) and the pages that call it (Home, the    *)
(* detail page's Post / generateMetadata / generateStaticParams).          *)
(*                                                                         *)
(* A JavaScript string is a sequence of one-character strings, so that     *)
(* split, slice, indexOf, trimStart, substring and the default sort order  *)
(* are computed on characters as the code computes them.                   *)
(***************************************************************************)
EXTENDS Integers, Sequences, FiniteSets, TLC

VARIABLES
  dir,       \* the posts directory: file name -> file text
  calls,     \* the getPostById calls made so far, in call order
  slugs,     \* rehype-slug's module-level slugger: slug -> occurrences
  listing,   \* the latest getPostInfosOrderedByDateDesc call: the entries
             \* readdirSync gave it, the sorted file names, its outcome
  pages,     \* outcomes of the detail-page entry points, in request order
  cache,     \* gray-matter's module-level matter.cache: file text -> file object
  params     \* the latest generateStaticParams result: the id arrays

vars == <<dir, calls, slugs, listing, pages, cache, params>>

(***************************************************************************)
(* Bounds of the model.                                                    *)
(***************************************************************************)
MaxFiles == 3   \* files in the posts directory
MaxCalls == 2   \* getPostById calls in one behaviour
MaxPages == 1   \* detail-page requests in one behaviour
MaxSlugLen == 3 \* characters of a slug in the file names of IdSpec

(***************************************************************************)
(* JavaScript string primitives.                                           *)
(***************************************************************************)
Min(a, b) == IF a < b THEN a ELSE b
Max(a, b) == IF a > b THEN a ELSE b

\* UTF-16 code unit of a character: the order String.prototype comparison
\* and Array.prototype.sort() without a comparator use.
Code(c) ==
  CASE c = "\n" -> 10  [] c = " " -> 32  [] c = "!" -> 33  [] c = "#" -> 35
    [] c = "&" -> 38   [] c = "," -> 44  [] c = "-" -> 45  [] c = "." -> 46
    [] c = "/" -> 47   [] c = "0" -> 48  [] c = "1" -> 49  [] c = "2" -> 50
    [] c = "3" -> 51   [] c = "4" -> 52  [] c = "5" -> 53  [] c = "6" -> 54
    [] c = "7" -> 55   [] c = "8" -> 56  [] c = "9" -> 57  [] c = "<" -> 60
    [] c = ">" -> 62   [] c = "H" -> 72  [] c = "W" -> 87  [] c = "~" -> 126
    [] c = "a" -> 97   [] c = "b" -> 98  [] c = "c" -> 99  [] c = "d" -> 100
    [] c = "e" -> 101  [] c = "h" -> 104 [] c = "i" -> 105 [] c = "l" -> 108
    [] c = "m" -> 109  [] c = "n" -> 110 [] c = "o" -> 111 [] c = "r" -> 114
    [] c = "t" -> 116  [] c = "u" -> 117 [] c = "w" -> 119 [] c = "x" -> 120
    [] OTHER -> 127

IsDigit(c) == c \in {"0", "1", "2", "3", "4", "5", "6", "7", "8", "9"}
IsSpace(c) == c \in {" ", "\n", "\t", "\r"}

\* s.slice(a, b) for 0 <= a, 0 <= b
Slice(s, a, b) == SubSeq(s, a + 1, Min(b, Len(s)))

\* s.substring(a, b): negative arguments count as 0, arguments past the end
\* as the length, and the smaller of the two is the start
Substring(s, a, b) ==
  LET ca == Min(Max(a, 0), Len(s))
      cb == Min(Max(b, 0), Len(s))
  IN  SubSeq(s, Min(ca, cb) + 1, Max(ca, cb))

\* s.indexOf(c) for a one-character c: 0-based, -1 when absent
IndexOf(s, c) ==
  IF \E i \in 1..Len(s) : s[i] = c
  THEN (CHOOSE i \in 1..Len(s) : s[i] = c /\ \A j \in 1..(i - 1) : s[j] # c) - 1
  ELSE -1

\* s.trimStart()
TrimStart(s) ==
  IF \E i \in 1..Len(s) : ~IsSpace(s[i])
  THEN LET f == CHOOSE i \in 1..Len(s) :
                  ~IsSpace(s[i]) /\ \A j \in 1..(i - 1) : IsSpace(s[j])
       IN  SubSeq(s, f, Len(s))
  ELSE <<>>

EndsWith(s, suf) ==
  Len(s) >= Len(suf) /\ SubSeq(s, Len(s) - Len(suf) + 1, Len(s)) = suf


\* s.split(sep) for a one-character separator
RECURSIVE Split(_, _)
Split(s, sep) ==
  LET i == IndexOf(s, sep)
  IN  IF i = -1 THEN <<s>>
      ELSE <<SubSeq(s, 1, i)>> \o Split(SubSeq(s, i + 2, Len(s)), sep)

\* parts.join(sep)
RECURSIVE Join(_, _)
Join(parts, sep) ==
  IF Len(parts) = 0 THEN <<>>
  ELSE IF Len(parts) = 1 THEN parts[1]
  ELSE parts[1] \o sep \o Join(Tail(parts), sep)

\* a < b as JavaScript compares strings: code unit by code unit, a proper
\* prefix first
RECURSIVE StrLess(_, _)
StrLess(a, b) ==
  IF Len(b) = 0 THEN FALSE
  ELSE IF Len(a) = 0 THEN TRUE
  ELSE IF Code(a[1]) # Code(b[1]) THEN Code(a[1]) < Code(b[1])
  ELSE StrLess(Tail(a), Tail(b))

\* Array.prototype.sort() without a comparator, as an insertion of each
\* element of the array in turn (stable, ascending by StrLess)
RECURSIVE InsertSorted(_, _)
InsertSorted(sorted, x) ==
  IF Len(sorted) = 0 THEN <<x>>
  ELSE IF StrLess(x, sorted[1]) THEN <<x>> \o sorted
  ELSE <<sorted[1]>> \o InsertSorted(Tail(sorted), x)

RECURSIVE Sort(_)
Sort(arr) ==
  IF Len(arr) = 0 THEN <<>>
  ELSE InsertSorted(Sort(SubSeq(arr, 1, Len(arr) - 1)), arr[Len(arr)])

\* Array.prototype.reverse()
Reverse(arr) == [i \in 1..Len(arr) |-> arr[Len(arr) + 1 - i]]

\* { ...a, ...b }: the keys of both, b's value where both have the key
Spread(a, b) ==
  [k \in DOMAIN a \cup DOMAIN b |-> IF k \in DOMAIN b THEN b[k] ELSE a[k]]

(***************************************************************************)
(* File texts.  A file text is a sequence of tokens: a "---" delimiter     *)
(* line, a "key: value" line of the YAML header, or one character.         *)
(***************************************************************************)
Delim == [t |-> "delim", k |-> "", v |-> <<>>]
KV(key, val) == [t |-> "kv", k |-> key, v |-> val]
Ch(c) == [t |-> "ch", k |-> c, v |-> <<>>]
Chars(str) == [i \in 1..Len(str) |-> Ch(str[i])]

\* the characters a token stands for, outside the header
RECURSIVE TextOf(_)
TextOf(toks) ==
  IF Len(toks) = 0 THEN <<>>
  ELSE (CASE toks[1].t = "ch" -> <<toks[1].k>>
          [] toks[1].t = "delim" -> <<"-", "-", "-", "\n">>
          [] OTHER -> toks[1].v \o <<"\n">>) \o TextOf(Tail(toks))

\* the characters of a header key
KeyChars(k) ==
  CASE k = "title" -> <<"t", "i", "t", "l", "e">>
    [] k = "date" -> <<"d", "a", "t", "e">>
    [] k = "prenote" -> <<"p", "r", "e", "n", "o", "t", "e">>
    [] k = "html" -> <<"h", "t", "m", "l">>
    [] k = "intro" -> <<"i", "n", "t", "r", "o">>
    [] OTHER -> <<"i", "d">>

\* the whole text of a file as a string
RECURSIVE RawText(_)
RawText(toks) ==
  IF Len(toks) = 0 THEN <<>>
  ELSE (CASE toks[1].t = "ch" -> <<toks[1].k>>
          [] toks[1].t = "delim" -> <<"-", "-", "-", "\n">>
          [] OTHER -> KeyChars(toks[1].k) \o <<":", " ">> \o toks[1].v \o <<"\n">>)
       \o RawText(Tail(toks))

\* the lines of the header block that are no key: value line
RECURSIVE YamlText(_)
YamlText(block) ==
  IF Len(block) = 0 THEN <<>>
  ELSE (IF block[1].t = "ch" THEN <<block[1].k>> ELSE <<"\n">>) \o YamlText(Tail(block))

\* the YAML engine on the header block: the mapping of its key: value
\* lines; blank lines and # comment lines are skipped, any other line is a
\* YAMLException
YamlOk(block) ==
  LET lines == Split(YamlText(block), "\n")
  IN  \A i \in 1..Len(lines) :
        LET t == TrimStart(lines[i]) IN t = <<>> \/ t[1] = "#"

YamlData(block) ==
  LET keys == {block[i].k : i \in {j \in 1..Len(block) : block[j].t = "kv"}}
  IN  [key \in keys |->
         block[CHOOSE i \in 1..Len(block) : block[i].t = "kv" /\ block[i].k = key].v]

\* parseMatter(file): without an opening delimiter the whole text is
\* content; the header ends at the next delimiter line, or at the end of the
\* text when there is none, and then the content is empty
\* the index of the closing delimiter line, or one past the end of the text
CloseIndex(rest) ==
  IF \E i \in 1..Len(rest) : rest[i] = Delim
  THEN CHOOSE i \in 1..Len(rest) :
         rest[i] = Delim /\ \A j \in 1..(i - 1) : rest[j] # Delim
  ELSE Len(rest) + 1

\* the header block parsed as YAML, the text after it as content
ParseHeader(block, after) ==
  IF ~YamlOk(block)
  THEN [err |-> "YAMLException", data |-> <<>>, content |-> <<>>]
  ELSE [err |-> "none", data |-> YamlData(block), content |-> TextOf(after)]

parseMatter(text) ==
  IF Len(text) = 0 \/ text[1] # Delim
  THEN [err |-> "none", data |-> <<>>, content |-> TextOf(text)]
  ELSE ParseHeader(SubSeq(Tail(text), 1, CloseIndex(Tail(text)) - 1),
                   SubSeq(Tail(text), CloseIndex(Tail(text)) + 1, Len(text) - 1))

\* the file object toFile(input) builds: no data, the whole input as content
toFile(text) == [data |-> <<>>, content |-> RawText(text)]

\* matter.cache[file.content] = file, and the file as parseMatter left it
Cached(mc, text, file) ==
  [t \in DOMAIN mc \cup {text} |-> IF t = text THEN file ELSE mc[t]]

Parsed(mc, text, p) ==
  [err |-> p.err, data |-> p.data, content |-> p.content,
   cache |-> Cached(mc, text,
               IF p.err = "none" THEN [data |-> p.data, content |-> p.content]
               ELSE toFile(text))]

\* matter(input) without options: an input seen before is answered from
\* matter.cache; a new input is stored in the cache as its file object and
\* then parsed in place, so that after a YAMLException the cache keeps the
\* file object as toFile built it
matter(mc, text) ==
  IF text = <<>>
  THEN [err |-> "none", data |-> <<>>, content |-> <<>>, cache |-> mc]
  ELSE IF text \in DOMAIN mc
  THEN [err |-> "none", data |-> mc[text].data, content |-> mc[text].content,
        cache |-> mc]
  ELSE Parsed(mc, text, parseMatter(text))

postsDir == <<"p", "o", "s", "t", "s">>

\* the effect of fs.readFileSync(path) when it creates a missing file
FsAfterReadCreating(fs, fileName) ==
  [n \in DOMAIN fs \cup {fileName} |-> IF n \in DOMAIN fs THEN fs[n] ELSE <<>>]

\* the effect of fs.readFileSync(path) on the directory: none
FsAfterRead(fs, fileName) == fs

\* readMatter with a missing file read as an empty text
readMatterLenient(fs, mc, fileName) ==
  IF fileName \notin DOMAIN fs
  THEN [err |-> "none", data |-> <<>>, content |-> <<>>, cache |-> mc]
  ELSE matter(mc, fs[fileName])

\* path.normalize on the segments of a relative path: empty and "."
\* segments are dropped, a ".." segment removes the segment before it
RECURSIVE NormalizeSegments(_, _)
NormalizeSegments(done, rest) ==
  IF Len(rest) = 0 THEN done
  ELSE IF rest[1] = <<>> \/ rest[1] = <<".">>
  THEN NormalizeSegments(done, Tail(rest))
  ELSE IF rest[1] = <<".", ".">> /\ Len(done) > 0 /\ done[Len(done)] # <<".", ".">>
  THEN NormalizeSegments(SubSeq(done, 1, Len(done) - 1), Tail(rest))
  ELSE NormalizeSegments(Append(done, rest[1]), Tail(rest))

\* path.join(a, b): the two joined by a separator, then normalized
PathJoin(a, b) ==
  Join(NormalizeSegments(<<>>, Split(a \o <<"/">> \o b, "/")), <<"/">>)

\* fs.readFileSync(filePath) and matter(post): the posts directory holds
\* files and no directories, and nothing is readable outside it, so every
\* other path throws ENOENT
ReadFile(fs, mc, filePath) ==
  IF \A n \in DOMAIN fs : postsDir \o <<"/">> \o n # filePath
  THEN [err |-> "ENOENT", data |-> <<>>, content |-> <<>>, cache |-> mc]
  ELSE matter(mc, fs[CHOOSE n \in DOMAIN fs : postsDir \o <<"/">> \o n = filePath])

\* readMatter(fileName), lines 27-35
readMatter(fs, mc, fileName) == ReadFile(fs, mc, PathJoin(postsDir, fileName))

(***************************************************************************)
(* Post identity.                                                          *)
(***************************************************************************)
MdSuffix == <<".", "m", "d">>

\* fn.replace(/\.md$/, "")
StripMd(fn) == IF EndsWith(fn, MdSuffix) THEN SubSeq(fn, 1, Len(fn) - 3) ELSE fn

\* the id with the slug cut at its first hyphen: const [date, slug] = ...
PostIdFirstPart(fn) ==
  LET parts == Split(StripMd(fn), "-")
      date == parts[1]
  IN  [year |-> Slice(date, 0, 4),
       month |-> Slice(date, 4, 6),
       day |-> Slice(date, 6, 8),
       slug |-> IF Len(parts) > 1 THEN parts[2] ELSE <<>>]

\* lines 64-69 of getPostInfosOrderedByDateDesc: the id of a file name
PostIdOf(fn) ==
  LET parts == Split(StripMd(fn), "-")
      date == parts[1]
      rest == Tail(parts)
  IN  [year |-> Slice(date, 0, 4),
       month |-> Slice(date, 4, 6),
       day |-> Slice(date, 6, 8),
       slug |-> Join(rest, <<"-">>)]

\* line 51 of getPostById: the file name of an id
PostFileName(args) ==
  args.year \o args.month \o args.day \o <<"-">> \o args.slug \o MdSuffix

\* the intro that is the whole body when the body has no line break
IntroOrWholeBody(content) ==
  IF IndexOf(TrimStart(content), "\n") = -1 THEN content
  ELSE Substring(content, 0, IndexOf(TrimStart(content), "\n") + 1)

\* line 70: the intro of a body
IntroOf(content) == Substring(content, 0, IndexOf(TrimStart(content), "\n") + 1)

(***************************************************************************)
(* The processor (lines 37-45): the six stages of one render.  Each stage  *)
(* is the plugin named at its .use() line, with the options that line      *)
(* passes, computed as the package computes it.                            *)
(* Markdown is covered for the block constructs the posts use: ATX         *)
(* headings, fenced code, HTML blocks and paragraphs of plain text.  The   *)
(* bodies of the model write a fence as three tildes, the second fence     *)
(* character of CommonMark.                                                *)
(***************************************************************************)
Blank(line) == \A i \in 1..Len(line) : IsSpace(line[i])

Fence == <<"~", "~", "~">>
IsFence(line) == Len(line) >= Len(Fence) /\ SubSeq(line, 1, Len(Fence)) = Fence
IsFenceClose(line) == IsFence(line) /\ Blank(SubSeq(line, 4, Len(line)))

\* the number of leading # of an ATX heading line, 0 when it is none
HashRun(line) ==
  IF Len(line) = 0 \/ line[1] # "#" THEN 0
  ELSE LET n == IF \E i \in 1..Len(line) : line[i] # "#"
                THEN (CHOOSE i \in 1..Len(line) :
                        line[i] # "#" /\ \A j \in 1..(i - 1) : line[j] = "#") - 1
                ELSE Len(line)
       IN  IF n <= 6 /\ (n = Len(line) \/ line[n + 1] = " ") THEN n ELSE 0

IsHeading(line) == HashRun(line) > 0
IsHtmlStart(line) == Len(line) > 0 /\ line[1] = "<"
Interrupts(line) == Blank(line) \/ IsHeading(line) \/ IsFence(line) \/ IsHtmlStart(line)

\* the index of the first line from `from` on that satisfies the test, or
\* one past the last line
FirstBlank(lines, from) ==
  IF \E i \in from..Len(lines) : Blank(lines[i])
  THEN CHOOSE i \in from..Len(lines) :
         Blank(lines[i]) /\ \A j \in from..(i - 1) : ~Blank(lines[j])
  ELSE Len(lines) + 1

FirstFenceClose(lines, from) ==
  IF \E i \in from..Len(lines) : IsFenceClose(lines[i])
  THEN CHOOSE i \in from..Len(lines) :
         IsFenceClose(lines[i]) /\ \A j \in from..(i - 1) : ~IsFenceClose(lines[j])
  ELSE Len(lines) + 1

FirstInterrupt(lines, from) ==
  IF \E i \in from..Len(lines) : Interrupts(lines[i])
  THEN CHOOSE i \in from..Len(lines) :
         Interrupts(lines[i]) /\ \A j \in from..(i - 1) : ~Interrupts(lines[j])
  ELSE Len(lines) + 1

MdNode(type, depth, lang, value) ==
  [type |-> type, depth |-> depth, lang |-> lang, value |-> value]

RECURSIVE ParseBlocks(_)
ParseBlocks(lines) ==
  IF Len(lines) = 0 THEN <<>>
  ELSE LET line == lines[1] IN
    IF Blank(line) THEN ParseBlocks(Tail(lines))
    ELSE IF IsFence(line) THEN
      LET close == FirstFenceClose(lines, 2)
      IN  <<MdNode("code", 0, TrimStart(SubSeq(line, 4, Len(line))),
                   Join(SubSeq(lines, 2, close - 1), <<"\n">>))>>
          \o ParseBlocks(SubSeq(lines, close + 1, Len(lines)))
    ELSE IF IsHeading(line) THEN
      <<MdNode("heading", HashRun(line), <<>>,
               TrimStart(SubSeq(line, HashRun(line) + 1, Len(line))))>>
      \o ParseBlocks(Tail(lines))
    ELSE IF IsHtmlStart(line) THEN
      LET end == FirstBlank(lines, 2)
      IN  <<MdNode("html", 0, <<>>, Join(SubSeq(lines, 1, end - 1), <<"\n">>))>>
          \o ParseBlocks(SubSeq(lines, end, Len(lines)))
    ELSE
      LET end == FirstInterrupt(lines, 2)
      IN  <<MdNode("paragraph", 0, <<>>, Join(SubSeq(lines, 1, end - 1), <<"\n">>))>>
          \o ParseBlocks(SubSeq(lines, end, Len(lines)))

\* stage 1, .use(remarkParse): the document's blocks
remarkParse(content) == ParseBlocks(Split(content, "\n"))

(* hast nodes: text and raw nodes carry a value, elements a tag, their      *)
(* properties (id, href, lang, hl) and children.                            *)
Text(value) ==
  [type |-> "text", tag |-> "", id |-> <<>>, hasId |-> FALSE, href |-> <<>>,
   lang |-> <<>>, hl |-> FALSE, value |-> value, children |-> <<>>]
Raw(value) == [Text(value) EXCEPT !.type = "raw"]
Element(tag, children) ==
  [type |-> "element", tag |-> tag, id |-> <<>>, hasId |-> FALSE, href |-> <<>>,
   lang |-> <<>>, hl |-> FALSE, value |-> <<>>, children |-> children]

HTag(depth) ==
  CASE depth = 1 -> "h1" [] depth = 2 -> "h2" [] depth = 3 -> "h3"
    [] depth = 4 -> "h4" [] depth = 5 -> "h5" [] OTHER -> "h6"

IsHeadingElement(n) ==
  n.type = "element" /\ n.tag \in {"h1", "h2", "h3", "h4", "h5", "h6"}

\* one mdast node as hast; an html node is kept as a raw node only with
\* allowDangerousHtml and dropped without it
ToHast(n, allowDangerousHtml) ==
  CASE n.type = "heading" -> <<Element(HTag(n.depth), <<Text(n.value)>>)>>
    [] n.type = "paragraph" -> <<Element("p", <<Text(n.value)>>)>>
    [] n.type = "code" ->
         <<Element("pre",
             <<[Element("code",
                  <<Text(IF n.value = <<>> THEN <<>> ELSE n.value \o <<"\n">>)>>)
                EXCEPT !.lang = n.lang]>>)>>
    [] n.type = "html" -> IF allowDangerousHtml THEN <<Raw(n.value)>> ELSE <<>>
    [] OTHER -> <<>>

RECURSIVE FlatMapHast(_, _)
FlatMapHast(mdast, allowDangerousHtml) ==
  IF Len(mdast) = 0 THEN <<>>
  ELSE ToHast(mdast[1], allowDangerousHtml) \o FlatMapHast(Tail(mdast), allowDangerousHtml)

\* the root's children with a line feed text node between two of them
RECURSIVE Wrap(_)
Wrap(nodes) ==
  IF Len(nodes) <= 1 THEN nodes
  ELSE <<nodes[1], Text(<<"\n">>)>> \o Wrap(Tail(nodes))

\* stage 2, .use(remarkRehype, { allowDangerousHtml: true })
remarkRehype(mdast, allowDangerousHtml) == Wrap(FlatMapHast(mdast, allowDangerousHtml))

(***************************************************************************)
(* Stage 3, .use(rehypeSlug): github-slugger over the headings.            *)
(***************************************************************************)
Lower(c) == CASE c = "H" -> "h" [] c = "W" -> "w" [] OTHER -> c

\* the characters the slugger's regular expression deletes
SlugDeleted(c) ==
  c \in {"\n", "\t", "\r", "!", "#", "&", ",", ".", "/", "<", ">", "~"}

\* slugger(value): lower case, the deleted characters dropped, every space
\* replaced by a hyphen
RECURSIVE Slugify(_)
Slugify(value) ==
  IF Len(value) = 0 THEN <<>>
  ELSE LET c == Lower(value[1]) IN
       (IF SlugDeleted(c) THEN <<>> ELSE IF c = " " THEN <<"-">> ELSE <<c>>)
       \o Slugify(Tail(value))

DigitChar(d) ==
  CASE d = 0 -> "0" [] d = 1 -> "1" [] d = 2 -> "2" [] d = 3 -> "3" [] d = 4 -> "4"
    [] d = 5 -> "5" [] d = 6 -> "6" [] d = 7 -> "7" [] d = 8 -> "8" [] OTHER -> "9"

\* String(n) for n >= 0
RECURSIVE NumStr(_)
NumStr(n) == IF n < 10 THEN <<DigitChar(n)>> ELSE NumStr(n \div 10) \o <<DigitChar(n % 10)>>

\* the slugger without its loop: one suffix, never tried again
SlugOnce(occ, original, result) ==
  IF result \in DOMAIN occ
  THEN [id |-> original \o <<"-">> \o NumStr(occ[original] + 1),
        occ |-> [occ EXCEPT ![original] = @ + 1]]
  ELSE [id |-> result,
        occ |-> [k \in DOMAIN occ \cup {result} |-> IF k = result THEN 0 ELSE occ[k]]]

\* the loop of BananaSlug.prototype.slug: while the candidate is taken,
\* count the original up and try original-count
RECURSIVE SlugLoop(_, _, _)
SlugLoop(occ, original, result) ==
  IF result \in DOMAIN occ
  THEN LET occ2 == [occ EXCEPT ![original] = @ + 1]
       IN  SlugLoop(occ2, original, original \o <<"-">> \o NumStr(occ2[original]))
  ELSE [id |-> result,
        occ |-> [k \in DOMAIN occ \cup {result} |-> IF k = result THEN 0 ELSE occ[k]]]

\* slugs.slug(value)
SlugOf(occ, value) == SlugLoop(occ, Slugify(value), Slugify(value))

\* toString(node): the text of a node's descendants
RECURSIVE NodeText(_)
RECURSIVE NodesText(_)
NodeText(n) == IF n.type = "text" THEN n.value ELSE NodesText(n.children)
NodesText(nodes) ==
  IF Len(nodes) = 0 THEN <<>> ELSE NodeText(nodes[1]) \o NodesText(Tail(nodes))

\* visit(tree, 'element'): every heading without an id gets the next slug
RECURSIVE SlugNodes(_, _)
SlugNodes(nodes, occ) ==
  IF Len(nodes) = 0 THEN [nodes |-> <<>>, occ |-> occ]
  ELSE LET n == nodes[1] IN
       IF IsHeadingElement(n) /\ ~n.hasId
       THEN LET r == SlugOf(occ, NodeText(n))
                rest == SlugNodes(Tail(nodes), r.occ)
            IN  [nodes |-> <<[n EXCEPT !.id = r.id, !.hasId = TRUE]>> \o rest.nodes,
                 occ |-> rest.occ]
       ELSE LET rest == SlugNodes(Tail(nodes), occ)
            IN  [nodes |-> <<n>> \o rest.nodes, occ |-> rest.occ]

\* the slugger kept from one document to the next
KeepOccurrences(occ) == occ

\* slugs.reset()
Reset(occ) == <<>>

\* the transformer: reset the module-level slugger, then visit the tree
rehypeSlug(tree, occ) == SlugNodes(tree, Reset(occ))

(***************************************************************************)
(* Stage 4, .use(rehypeAutolinkHeadings, { behavior: "wrap" }).            *)
(***************************************************************************)
\* the link with the bare id as its target
LinkWithoutHash(id, children) == [Element("a", children) EXCEPT !.href = id]

Link(id, children) == [Element("a", children) EXCEPT !.href = <<"#">> \o id]

AutolinkNode(n, behavior) ==
  IF IsHeadingElement(n) /\ n.hasId
  THEN IF behavior = "wrap"
       THEN [n EXCEPT !.children = <<Link(n.id, n.children)>>]
       ELSE [n EXCEPT !.children = <<Link(n.id, <<>>)>> \o n.children]
  ELSE n

rehypeAutolinkHeadings(tree, behavior) ==
  [i \in 1..Len(tree) |-> AutolinkNode(tree[i], behavior)]

(***************************************************************************)
(* Stage 5, .use(rehypePrettyCode, { theme }): every pre > code becomes a  *)
(* figure whose lines come from the highlighter.  A block without a        *)
(* language is given to the highlighter as plain text; a language the      *)
(* highlighter has no grammar for makes it throw, and the plugin catches   *)
(* that and highlights the block as plain text.                            *)
(***************************************************************************)
SupportedLangs == {<<"c">>}
PlainText == <<"t", "x", "t">>

\* highlighter.codeToHtml(code, { lang }): the line of the block; tokens of
\* the plain-text grammar carry no colour
Highlight(children, lang) ==
  IF lang \in SupportedLangs \cup {PlainText}
  THEN [err |-> "none",
        line |-> [Element("span", children) EXCEPT !.hl = (lang # PlainText)]]
  ELSE [err |-> "ShikiError", line |-> Element("span", children)]

IsBlockCode(n) ==
  /\ n.type = "element" /\ n.tag = "pre"
  /\ Len(n.children) = 1 /\ n.children[1].tag = "code"

Figure(line, lang) ==
  Element("figure",
    <<[Element("pre", <<[Element("code", <<line>>) EXCEPT !.lang = lang]>>)
       EXCEPT !.lang = lang]>>)

BlockLang(n) == IF n.children[1].lang = <<>> THEN PlainText ELSE n.children[1].lang

\* the plugin with every block styled as highlighted code
PrettyNodeStyled(n) ==
  IF IsBlockCode(n)
  THEN [err |-> "none",
        node |-> Figure([Element("span", n.children[1].children) EXCEPT !.hl = TRUE],
                        BlockLang(n))]
  ELSE [err |-> "none", node |-> n]

Highlighted(h, lang) == [err |-> h.err, node |-> Figure(h.line, lang)]

\* the plugin without its catch: the highlighter's throw ends the run
PrettyNodeNoFallback(n) ==
  IF IsBlockCode(n)
  THEN Highlighted(Highlight(n.children[1].children, BlockLang(n)), BlockLang(n))
  ELSE [err |-> "none", node |-> n]

\* try { highlight in lang } catch { highlight as plain text }
Caught(children, first) ==
  IF first.err = "none" THEN first ELSE Highlight(children, PlainText)

PrettyNode(n) ==
  IF IsBlockCode(n)
  THEN Highlighted(Caught(n.children[1].children,
                          Highlight(n.children[1].children, BlockLang(n))),
                   BlockLang(n))
  ELSE [err |-> "none", node |-> n]

\* the transformer: the first error of a node rejects the run
FirstError(done, bad) ==
  [err |-> IF bad = {} THEN "none"
           ELSE done[CHOOSE i \in bad : \A j \in bad : i <= j].err,
   tree |-> IF bad = {} THEN [i \in 1..Len(done) |-> done[i].node] ELSE <<>>]

rehypePrettyCode(tree) ==
  FirstError([i \in 1..Len(tree) |-> PrettyNode(tree[i])],
             {i \in 1..Len(tree) : PrettyNode(tree[i]).err # "none"})

(***************************************************************************)
(* Stage 6, .use(rehypeStringify): the tree as HTML.                       *)
(***************************************************************************)
TagChars(tag) ==
  CASE tag = "h1" -> <<"h", "1">> [] tag = "h2" -> <<"h", "2">>
    [] tag = "h3" -> <<"h", "3">> [] tag = "h4" -> <<"h", "4">>
    [] tag = "h5" -> <<"h", "5">> [] tag = "h6" -> <<"h", "6">>
    [] tag = "p" -> <<"p">>       [] tag = "a" -> <<"a">>
    [] tag = "pre" -> <<"p", "r", "e">>
    [] tag = "code" -> <<"c", "o", "d", "e">>
    [] tag = "figure" -> <<"f", "i", "g", "u", "r", "e">>
    [] OTHER -> <<"s", "p", "a", "n">>

\* the character references of text: < and & are encoded
RECURSIVE Escape(_)
Escape(value) ==
  IF Len(value) = 0 THEN <<>>
  ELSE (CASE value[1] = "<" -> <<"&", "#", "x", "3", "C", ";">>
          [] value[1] = "&" -> <<"&", "#", "x", "2", "6", ";">>
          [] OTHER -> <<value[1]>>) \o Escape(Tail(value))

Attr(name, value) == <<" ">> \o name \o <<"=", "\"">> \o Escape(value) \o <<"\"">>

Attrs(n) ==
  (IF n.hasId THEN Attr(<<"i", "d">>, n.id) ELSE <<>>)
  \o (IF n.href # <<>> THEN Attr(<<"h", "r", "e", "f">>, n.href) ELSE <<>>)
  \o (IF n.lang # <<>> THEN Attr(<<"l", "a", "n", "g">>, n.lang) ELSE <<>>)
  \o (IF n.hl THEN Attr(<<"s", "t", "y", "l", "e">>, <<>>) ELSE <<>>)

\* a raw node is inserted as it is only with allowDangerousHtml, and is
\* encoded like text without it
RECURSIVE ToHtml(_, _)
RECURSIVE AllToHtml(_, _)
ToHtml(n, allowDangerousHtml) ==
  CASE n.type = "text" -> Escape(n.value)
    [] n.type = "raw" -> IF allowDangerousHtml THEN n.value ELSE Escape(n.value)
    [] OTHER ->
         <<"<">> \o TagChars(n.tag) \o Attrs(n) \o <<">">>
         \o AllToHtml(n.children, allowDangerousHtml)
         \o <<"<", "/">> \o TagChars(n.tag) \o <<">">>
AllToHtml(nodes, allowDangerousHtml) ==
  IF Len(nodes) = 0 THEN <<>>
  ELSE ToHtml(nodes[1], allowDangerousHtml) \o AllToHtml(Tail(nodes), allowDangerousHtml)

rehypeStringify(tree, allowDangerousHtml) == AllToHtml(tree, allowDangerousHtml)

\* processor.process(content) up to the first asynchronous transformer:
\* parse and the synchronous transformers run in the caller's turn
Linked(slugged) ==
  [tree |-> rehypeAutolinkHeadings(slugged.nodes, "wrap"), occ |-> slugged.occ]

\* the processor with the link stage placed before the slug stage
ProcessSyncLinkFirst(content, occ) ==
  [tree |-> rehypeSlug(rehypeAutolinkHeadings(remarkRehype(remarkParse(content), TRUE),
                                              "wrap"), occ).nodes,
   occ |-> rehypeSlug(rehypeAutolinkHeadings(remarkRehype(remarkParse(content), TRUE),
                                             "wrap"), occ).occ]

ProcessSync(content, occ) ==
  Linked(rehypeSlug(remarkRehype(remarkParse(content), TRUE), occ))

\* the rest of the run, after rehype-pretty-code's await: highlight and
\* compile; no options are given to rehypeStringify
Compiled(pretty) ==
  IF pretty.err # "none"
  THEN [err |-> pretty.err, tree |-> <<>>, html |-> <<>>]
  ELSE [err |-> "none", tree |-> pretty.tree,
        html |-> rehypeStringify(pretty.tree, FALSE)]

ProcessAsync(tree) == Compiled(rehypePrettyCode(tree))

(***************************************************************************)
(* The files a posts directory is drawn from.                              *)
(***************************************************************************)
DateA == <<"2", "0", "2", "3", "0", "9", "2", "1">>
DateB == <<"2", "0", "2", "3", "1", "1", "0", "3">>
DateC == <<"2", "0", "2", "5", "0", "3", "0", "9">>

FileName(date, slug) == date \o <<"-">> \o slug \o MdSuffix

NameA == FileName(DateA, <<"a">>)
NameB == FileName(DateB, <<"a", "-", "b">>)
NameC == FileName(DateC, <<"b">>)

Header(title, prenote) ==
  <<Delim, KV("title", title), KV("date", <<"d">>)>>
  \o (IF prenote = <<>> THEN <<>> ELSE <<KV("prenote", prenote)>>)
  \o <<Delim>>

\* one blank line, a heading, a paragraph, a heading with punctuation
BodyHello ==
  <<"\n", "#", " ", "H", "e", "l", "l", "o", ",", " ", "W", "o", "r", "l", "d", "!",
    "\n", "\n", "a", "b", "\n", "#", "#", " ", "a", ".", "b", "\n">>
\* two blank lines, three headings whose slugs collide
BodyIntro ==
  <<"\n", "\n", "#", " ", "i", "n", "\n", "#", "#", " ", "i", "n", "\n",
    "#", " ", "i", "n", "-", "1", "\n">>
\* no blank line, a paragraph, an HTML block, a fenced code block
BodyHtml ==
  <<"a", "b", "\n", "\n", "<", "h", "r", ">", "\n", "\n",
    "~", "~", "~", "c", "\n", "x", "\n", "~", "~", "~", "\n">>
\* a body without any line break
BodyFlat == <<"a", "b">>
\* a heading, a fenced block without a language, a fenced block in a
\* language the highlighter does not have, a paragraph
BodyFence ==
  <<"#", " ", "t", "\n", "~", "~", "~", "\n", "x", "\n", "~", "~", "~", "\n",
    "~", "~", "~", "z", "z", "\n", "y", "\n", "~", "~", "~", "\n", "a", "b", "\n">>
\* malformed constructs: seven # signs, a tag that is not closed, a fence
\* that is not closed
BodyOpen ==
  <<"#", "#", "#", "#", "#", "#", "#", " ", "h", "\n", "\n", "<", "h", "r", "\n", "\n",
    "~", "~", "~", "z", "z", "\n", "x">>

TextHello == Header(<<"a">>, <<"n">>) \o Chars(BodyHello)
TextFlat == Header(<<"a">>, <<>>) \o Chars(BodyFlat)

FilePool ==
  { <<NameA, TextHello>>,
    <<NameA, Header(<<"b">>, <<>>) \o Chars(BodyIntro)>>,
    <<NameB, Header(<<"b">>, <<>>) \o Chars(BodyIntro)>>,
    <<NameC, Header(<<"c">>, <<>>) \o Chars(BodyHtml)>>,
    <<FileName(DateB, <<"a">>), TextHello>>,
    << <<"x", ".", "m", "d">>, TextFlat >>,
    <<NameC, Header(<<"b">>, <<>>) \o Chars(BodyFence)>>,
    <<NameB, Header(<<"c">>, <<"n">>) \o Chars(BodyOpen)>> }


\* a header that is never closed, followed by a blank line and a # line
TextUnclosed ==
  <<Delim, KV("title", <<"a">>), KV("date", <<"d">>)>>
  \o Chars(<<"\n", "#", " ", "i", "n", "\n">>)
\* a header that is never closed, followed by a line of text
TextBroken ==
  <<Delim, KV("title", <<"b">>), KV("date", <<"d">>)>> \o Chars(<<"a", "b", "\n">>)
\* a closed header with a line that is no YAML mapping entry
TextInvalid ==
  <<Delim, KV("title", <<"c">>)>> \o Chars(<<"a", "b", "\n">>) \o <<Delim>>
  \o Chars(BodyFlat)

\* files with headers that are not closed or not YAML, next to files that
\* are well formed
\* and a file whose header has the keys html, id and intro
MatterPool ==
  { <<NameA, TextHello>>, <<NameA, TextInvalid>>,
    <<NameB, TextUnclosed>>, <<NameB, TextBroken>>, <<NameB, TextFlat>>,
    <<NameA, <<Delim, KV("title", <<"a">>), KV("html", <<"x">>), KV("id", <<"y">>),
               KV("intro", <<"z">>), Delim>> \o Chars(BodyHello)>> }

\* the directories: at most MaxFiles files, one text per name
Directories ==
  { d \in UNION {[S -> {f[2] : f \in FilePool}] : S \in SUBSET {f[1] : f \in FilePool}} :
      /\ Cardinality(DOMAIN d) <= MaxFiles
      /\ \A n \in DOMAIN d : <<n, d[n]>> \in FilePool }

MatterDirectories ==
  { d \in UNION {[S -> {f[2] : f \in MatterPool}] : S \in SUBSET {NameA, NameB}} :
      \A n \in DOMAIN d : <<n, d[n]>> \in MatterPool }

\* the arguments getPostById is called with: the ids of three names, each
\* of which is in some directories and missing from others
ArgPool == {PostIdOf(NameA), PostIdOf(NameB), PostIdOf(NameC)}


\* the path segments a detail page is requested with
IdSegments(id) == <<id.year, id.month, id.day, id.slug>>
SegPool ==
  { IdSegments(PostIdOf(NameB)),
    IdSegments(PostIdOf(NameA)),
    <<<<"2", "0", "2", "3">>, <<"1", "1">>, <<"0", "3">>>>,
    <<<<"2", "3">>, <<"1", "1">>, <<"0", "3">>, <<"a", "-", "b">>>>,
    <<<<"2", "0", "2", "3">>, <<"1", "1">>, <<"0", "3">>, <<"a">>, <<"b">>>>,
    \* slugs with path separators and .. segments
    <<<<"2", "0", "2", "3">>, <<"0", "9">>, <<"2", "1">>, <<"a", "/", "b">>>>,
    <<<<"2", "0", "2", "3">>, <<"0", "9">>, <<"2", "1">>,
      <<"a", "/", ".", ".", "/", ".", ".", "/", "x">>>>,
    <<<<"2", "0", "2", "3">>, <<"0", "9">>, <<"2", "1">>,
      <<"x", "/", ".", ".", "/">> \o DateA \o <<"-", "a">>>> }

(***************************************************************************)
(* getPostById (lines 48-58).                                              *)
(***************************************************************************)
NoTree == <<>>

\* the result with the title alone: { html, title: data.title }
PostResultTitleOnly(html, data) == [html |-> html, title |-> data.title]

\* lines 54-57: { html: postHtml, ...data }
PostResult(html, data) == Spread([html |-> html], data)

\* what a call does, in order: the file reads and the runs of the processor
Event(op, arg) == [op |-> op, arg |-> arg]

\* a call is recorded with the directory as it was when the call was made
\* (seen), for the properties that compare it with a computation anew

\* the call rejected by a throw of readMatter
Rejected(fs, args, fileName, m) ==
  [args |-> args, file |-> fileName, status |-> "rejected",
   error |-> m.err, data |-> <<>>, content |-> <<>>,
   processed |-> FALSE, tree |-> NoTree, html |-> <<>>,
   result |-> <<>>, trace |-> <<Event("readFileSync", fileName)>>, seen |-> fs,
   path |-> PathJoin(postsDir, fileName)]

\* the call suspended at the await of processor.process(content)
Pending(fs, args, fileName, m, tree) ==
  [args |-> args, file |-> fileName, status |-> "pending",
   error |-> "none", data |-> m.data, content |-> m.content,
   processed |-> TRUE, tree |-> tree, html |-> <<>>,
   result |-> <<>>,
   trace |-> <<Event("readFileSync", fileName), Event("process", m.content)>>,
   seen |-> fs, path |-> PathJoin(postsDir, fileName)]

Rendering(fs, args, occ, fileName, m, p) ==
  [call |-> Pending(fs, args, fileName, m, p.tree),
   occ |-> p.occ, cache |-> m.cache, fs |-> FsAfterRead(fs, fileName)]

Started(fs, args, occ, fileName, m) ==
  IF m.err # "none"
  THEN [call |-> Rejected(fs, args, fileName, m),
        occ |-> occ, cache |-> m.cache, fs |-> FsAfterRead(fs, fileName)]
  ELSE Rendering(fs, args, occ, fileName, m, ProcessSync(m.content, occ))

\* lines 49-52, up to the await: read the file, start the render.  A throw
\* of readMatter rejects the promise before the processor is reached.
CallStart(fs, args, occ, mc) ==
  Started(fs, args, occ, PostFileName(args), readMatter(fs, mc, PostFileName(args)))

\* the call settled with the outcome r of the rest of the run
Settled(c, r) ==
  IF r.err # "none"
  THEN [c EXCEPT !.status = "rejected", !.error = r.err, !.tree = NoTree,
                 !.trace = @ \o <<Event("resume", <<>>)>>]
  ELSE [c EXCEPT !.status = "fulfilled", !.tree = r.tree, !.html = r.html,
                 !.result = PostResult(r.html, c.data),
                 !.trace = @ \o <<Event("resume", <<>>)>>]

\* the rest of a call that reads its file once more for the render
CallSettleRereading(c) ==
  [Settled(c, ProcessAsync(c.tree)) EXCEPT
     !.trace = c.trace \o <<Event("readFileSync", c.file), Event("resume", <<>>)>>]

\* the call that awaits again every time it is resumed
CallStaysPending(c) == [c EXCEPT !.processed = ~c.processed]

\* lines 52-57, after the await: the rest of the render, then the result; an
\* error of the render rejects the promise
CallSettle(c) == Settled(c, ProcessAsync(c.tree))

(***************************************************************************)
(* getPostInfosOrderedByDateDesc (lines 60-78).                            *)
(***************************************************************************)
\* lines 63-75: the summary of one file that has been read
PostInfo(fn, m) ==
  Spread([id |-> PostIdOf(fn), intro |-> IntroOf(m.content)], m.data)

\* the file names sorted and not reversed
AscendingFileNames(entries) == Sort(entries)

\* the file names in the order the directory was enumerated
EnumeratedFileNames(entries) == entries

\* line 61: fs.readdirSync(postsDir).sort().reverse()
OrderedFileNames(entries) == Reverse(Sort(entries))

\* line 62, fileNames.map(...): the files read one after the other; the
\* first that cannot be read or parsed ends the map with its error
\* (MappedPartial: the map that returns the summaries made before the error)
MappedPartial(first, rest) ==
  [err |-> "none", infos |-> <<first>> \o rest.infos, cache |-> rest.cache, fs |-> rest.fs]

Mapped(first, rest) ==
  [err |-> rest.err,
   infos |-> IF rest.err = "none" THEN <<first>> \o rest.infos ELSE <<>>,
   cache |-> rest.cache, fs |-> rest.fs]

RECURSIVE MapInfos(_, _, _)
\* the map that gives a file the id of the last file name still to be read
MapStepShifted(fs, mc, fileNames, m) ==
  IF m.err # "none"
  THEN [err |-> m.err, infos |-> <<>>, cache |-> m.cache,
        fs |-> FsAfterRead(fs, fileNames[1])]
  ELSE Mapped(PostInfo(fileNames[Len(fileNames)], m),
              MapInfos(FsAfterRead(fs, fileNames[1]), m.cache, Tail(fileNames)))

MapStep(fs, mc, fileNames, m) ==
  IF m.err # "none"
  THEN [err |-> m.err, infos |-> <<>>, cache |-> m.cache,
        fs |-> FsAfterRead(fs, fileNames[1])]
  ELSE Mapped(PostInfo(fileNames[1], m),
              MapInfos(FsAfterRead(fs, fileNames[1]), m.cache, Tail(fileNames)))

MapInfos(fs, mc, fileNames) ==
  IF Len(fileNames) = 0
  THEN [err |-> "none", infos |-> <<>>, cache |-> mc, fs |-> fs]
  ELSE MapStep(fs, mc, fileNames, readMatter(fs, mc, fileNames[1]))

Listed(fs, entries, fileNames, r) ==
  [listing |-> [status |-> IF r.err = "none" THEN "returned" ELSE "threw",
                error |-> r.err, entries |-> entries, files |-> fileNames,
                infos |-> r.infos, seen |-> fs],
   cache |-> r.cache, fs |-> r.fs]

\* entries is the array readdirSync returns
PostInfos(fs, mc, entries) ==
  Listed(fs, entries, OrderedFileNames(entries),
         MapInfos(fs, mc, OrderedFileNames(entries)))

\* the orders in which the directory can be enumerated
Enumerations(S) ==
  {e \in [1..Cardinality(S) -> S] : \A i, j \in 1..Cardinality(S) : e[i] = e[j] => i = j}

(***************************************************************************)
(* The detail page (app page of the post route).                           *)
(***************************************************************************)
AllDigits(str, n) == Len(str) = n /\ \A i \in 1..Len(str) : IsDigit(str[i])

\* id.length === 4 && /^\d{4}$/ && /^\d{2}$/ && /^\d{2}$/
isValidPostId(id) ==
  /\ Len(id) = 4
  /\ AllDigits(id[1], 4)
  /\ AllDigits(id[2], 2)
  /\ AllDigits(id[3], 2)

\* const [year, month, day, slug] = props.params.id
Segment(id, i) == IF i <= Len(id) THEN id[i] ELSE <<"u", "n", "d", "e", "f", "i", "n", "e", "d">>
ArgsOf(id) ==
  [year |-> Segment(id, 1), month |-> Segment(id, 2),
   day |-> Segment(id, 3), slug |-> Segment(id, 4)]

PageRecord(entry, guarded, id, call, outcome) ==
  [entry |-> entry, guarded |-> guarded, id |-> id, call |-> call, outcome |-> outcome]

\* what an entry point answers when getPostById has fulfilled

\* the values in the alphabetical order of the keys
ObjectValuesByKey(id) == <<id.day, id.month, id.slug, id.year>>

\* Object.values(id): the values in the order the keys were written
ObjectValues(id) == <<id.year, id.month, id.day, id.slug>>

\* infos.map(({ id }) => ({ id: Object.values(id) }))
StaticParams(infos) == [i \in 1..Len(infos) |-> ObjectValues(infos[i].id)]

\* Home, the href of a post: /${year}/${month}/${day}/${slug}
HomeLink(id) ==
  <<"/">> \o id.year \o <<"/">> \o id.month \o <<"/">> \o id.day \o <<"/">> \o id.slug

(***************************************************************************)
(* The state machine.                                                      *)
(***************************************************************************)
NoListing ==
  [status |-> "none", error |-> "none", entries |-> <<>>, files |-> <<>>, infos |-> <<>>,
   seen |-> <<>>]

Init ==
  /\ dir \in Directories
  /\ calls = <<>>
  /\ slugs = <<>>
  /\ listing = NoListing
  /\ pages = <<>>
  /\ cache = <<>>
  /\ params = <<>>

\* a caller invokes getPostById(args)
Start(s) ==
  /\ calls' = Append(calls, s.call)
  /\ slugs' = s.occ
  /\ cache' = s.cache
  /\ dir' = s.fs

GetPostById(args) ==
  /\ Len(calls) < MaxCalls
  /\ Start(CallStart(dir, args, slugs, cache))
  /\ UNCHANGED <<listing, pages, params>>

\* the pending render of call i completes; a page that awaits it goes on
Resume(i) ==
  /\ calls[i].status = "pending"
  /\ calls' = [calls EXCEPT ![i] = CallSettle(@)]
  /\ pages' = [p \in 1..Len(pages) |->
                 IF pages[p].call = i /\ pages[p].outcome = "pending"
                 THEN [pages[p] EXCEPT !.outcome =
                         IF calls'[i].status = "rejected"
                         THEN "error" ELSE (IF pages[p].entry = "Post" THEN "rendered" ELSE "titled")]
                 ELSE pages[p]]
  /\ UNCHANGED <<dir, slugs, listing, cache, params>>

\* an entry point of the detail page calls getPostById with the segments; a
\* rejection is not caught
PageCall(entry, guarded, id) ==
  /\ Len(calls) < MaxCalls
  /\ Start(CallStart(dir, ArgsOf(id), slugs, cache))
  /\ pages' = Append(pages,
       PageRecord(entry, guarded, id, Len(calls) + 1,
                  IF calls'[Len(calls) + 1].status = "rejected"
                  THEN "error" ELSE "pending"))
  /\ UNCHANGED <<listing, params>>

\* Post, lines 109-114: notFound() unless the id is valid
Post(id) ==
  /\ Len(pages) < MaxPages
  /\ IF ~isValidPostId(id)
     THEN /\ pages' = Append(pages, PageRecord("Post", TRUE, id, 0, "notFound"))
          /\ UNCHANGED <<dir, calls, slugs, listing, cache, params>>
     ELSE PageCall("Post", TRUE, id)

\* generateMetadata, lines 98-107: the base title unless the id is valid
generateMetadata(id) ==
  /\ Len(pages) < MaxPages
  /\ IF ~isValidPostId(id)
     THEN /\ pages' = Append(pages, PageRecord("generateMetadata", TRUE, id, 0, "baseTitle"))
          /\ UNCHANGED <<dir, calls, slugs, listing, cache, params>>
     ELSE PageCall("generateMetadata", TRUE, id)

\* Post, lines 53-55: the variant of the page without a guard
PostUnguarded(id) ==
  /\ Len(pages) < MaxPages
  /\ PageCall("Post", FALSE, id)

\* generateMetadata, lines 45-51: the variant of the page without a guard
generateMetadataUnguarded(id) ==
  /\ Len(pages) < MaxPages
  /\ PageCall("generateMetadata", FALSE, id)

\* a caller invokes getPostInfosOrderedByDateDesc()
Return(r) ==
  /\ listing' = r.listing
  /\ cache' = r.cache
  /\ dir' = r.fs

GetPostInfos ==
  /\ \E entries \in Enumerations(DOMAIN dir) : Return(PostInfos(dir, cache, entries))
  /\ UNCHANGED <<calls, slugs, pages, params>>

\* generateStaticParams, lines 140-143: the ids of the listing as arrays;
\* a throw of the listing leaves no parameters
generateStaticParams ==
  /\ \E entries \in Enumerations(DOMAIN dir) : Return(PostInfos(dir, cache, entries))
  /\ params' = StaticParams(listing'.infos)
  /\ UNCHANGED <<calls, slugs, pages>>

\* getPostById calls, which may overlap
Next ==
  \/ \E args \in ArgPool : GetPostById(args)
  \/ \E i \in 1..Len(calls) : Resume(i)

Spec == Init /\ [][Next]_vars

\* the event loop runs the continuation of every await whose promise has
\* settled, and the highlighter's promise settles: a pending render is
\* resumed at some time.  This is WF_vars(Resume(i)) for every call i, with
\* ENABLED <<Resume(i)>>_vars written out as the guard of Resume(i).
LiveSpec ==
  Spec /\ \A i \in 1..MaxCalls :
            \/ []<>~(i <= Len(calls) /\ calls[i].status = "pending")
            \/ []<><<i <= Len(calls) /\ Resume(i)>>_vars

\* getPostInfosOrderedByDateDesc over every directory and enumeration order
ListNext == GetPostInfos

ListSpec == Init /\ [][ListNext]_vars

\* the detail page over the directories of two of the names
PageInit == Init /\ DOMAIN dir \subseteq {NameA, NameB}

PageNext ==
  \/ \E id \in SegPool : Post(id)
  \/ \E id \in SegPool : generateMetadata(id)
  \/ \E id \in SegPool : PostUnguarded(id)
  \/ \E id \in SegPool : generateMetadataUnguarded(id)
  \/ \E i \in 1..Len(calls) : Resume(i)

PageSpec == PageInit /\ [][PageNext]_vars

\* both operations, calls overlapping, over files with and without a closed
\* header
MatterInit ==
  /\ dir \in MatterDirectories
  /\ calls = <<>>
  /\ slugs = <<>>
  /\ listing = NoListing
  /\ pages = <<>>
  /\ cache = <<>>
  /\ params = <<>>

MatterNext ==
  \/ \E args \in {PostIdOf(NameA), PostIdOf(NameB)} : GetPostById(args)
  \/ \E i \in 1..Len(calls) : Resume(i)
  \/ GetPostInfos

MatterSpec == MatterInit /\ [][MatterNext]_vars

\* the author writes a file of the posts directory, or deletes one
WriteFile(name, text) ==
  /\ dir' = [n \in DOMAIN dir \cup {name} |-> IF n = name THEN text ELSE dir[n]]
  /\ UNCHANGED <<calls, slugs, listing, pages, cache, params>>

RemoveFile(name) ==
  /\ name \in DOMAIN dir
  /\ dir' = [n \in DOMAIN dir \ {name} |-> dir[n]]
  /\ UNCHANGED <<calls, slugs, listing, pages, cache, params>>

\* the texts the author gives one file: two well formed, one that is not
EditPool == {<<NameA, TextHello>>, <<NameA, TextFlat>>, <<NameA, TextInvalid>>}

EditInit == MatterInit /\ dir = <<>>

\* both operations while one file is added, changed and removed between
\* calls
EditNext ==
  \/ GetPostById(PostIdOf(NameA))
  \/ \E i \in 1..Len(calls) : Resume(i)
  \/ GetPostInfos
  \/ \E f \in EditPool : WriteFile(f[1], f[2])
  \/ RemoveFile(NameA)

EditSpec == EditInit /\ [][EditNext]_vars

\* the build: the static parameters, then the detail page of each of them
ParamsNext ==
  \/ generateStaticParams
  \/ \E i \in 1..Len(params) : Post(params[i])
  \/ \E i \in 1..Len(calls) : Resume(i)

ParamsSpec == Init /\ [][ParamsNext]_vars

\* a caller invokes getPostById with an id of the latest listing
GetPostByListedId(i) == GetPostById(listing.infos[i].id)

(***************************************************************************)
(* Post identity over many file names: directories of one file whose name  *)
(* is YYYYMMDD-slug.md for every slug over SlugAlphabet.                   *)
(***************************************************************************)
SlugAlphabet == {"a", "-", ".", "m", "d"}
SlugPool == UNION {[1..n -> SlugAlphabet] : n \in 1..MaxSlugLen}
WellFormedNames == {FileName(date, slug) : date \in {DateA, DateC}, slug \in SlugPool}

IdInit ==
  /\ \E n \in WellFormedNames : dir = [x \in {n} |-> TextFlat]
  /\ calls = <<>>
  /\ slugs = <<>>
  /\ listing = NoListing
  /\ pages = <<>>
  /\ cache = <<>>
  /\ params = <<>>

IdNext ==
  \/ GetPostInfos
  \/ \E i \in 1..Len(listing.infos) : GetPostByListedId(i)
  \/ \E i \in 1..Len(calls) : Resume(i)

IdSpec == IdInit /\ [][IdNext]_vars

(***************************************************************************)
(* Vocabulary of the properties.                                           *)
(***************************************************************************)
\* YYYYMMDD-slug.md: eight digits, a hyphen, a non-empty slug
WellFormedName(n) ==
  /\ Len(n) >= 13
  /\ \A i \in 1..8 : IsDigit(n[i])
  /\ n[9] = "-"
  /\ EndsWith(n, MdSuffix)

DatePrefix(n) == SubSeq(n, 1, 8)

\* the number a string of digits denotes
RECURSIVE DigitsValue(_)
DigitsValue(str) ==
  IF Len(str) = 0 THEN 0
  ELSE 10 * DigitsValue(SubSeq(str, 1, Len(str) - 1)) + (Code(str[Len(str)]) - Code("0"))

DateKey(id) == id.year \o id.month \o id.day

\* the key: value lines between the two delimiter lines of a file text
HeaderLines(text) ==
  {i \in 1..Len(text) :
     /\ text[i].t = "kv"
     /\ text[1] = Delim
     /\ \A j \in 2..i : text[j] # Delim
     /\ \E j \in (i + 1)..Len(text) : text[j] = Delim}
HasHeaderKey(text, key) == \E i \in HeaderLines(text) : text[i].k = key
HeaderValue(text, key) == text[CHOOSE i \in HeaderLines(text) : text[i].k = key].v

\* needle occurs in hay as a run of consecutive characters
Contains(hay, needle) ==
  \E i \in 0..(Len(hay) - Len(needle)) : SubSeq(hay, i + 1, i + Len(needle)) = needle

Fulfilled == {i \in 1..Len(calls) : calls[i].status = "fulfilled"}
Headings(tree) == {i \in 1..Len(tree) : IsHeadingElement(tree[i])}
HasHeading(content) == \E i \in 1..Len(remarkParse(content)) : remarkParse(content)[i].type = "heading"

\* the HTML a processor that has rendered nothing before gives a body
FreshHtml(content) == ProcessAsync(ProcessSync(content, <<>>).tree).html

(***************************************************************************)
(* C1: the id the listing derives from a file name YYYYMMDD-slug.md,       *)
(* passed to getPostById, makes getPostById read exactly that file name.   *)
(***************************************************************************)
C1_IdRoundTrip ==
  \A i \in 1..Len(calls) : \A j \in 1..Len(listing.infos) :
    (WellFormedName(listing.files[j]) /\ calls[i].args = listing.infos[j].id)
      => calls[i].file = listing.files[j]

\* a listed post whose slug contains a hyphen has been resolved and read
C1_Witness ==
  \E i \in Fulfilled :
    /\ Len(listing.infos) = 1
    /\ calls[i].args = listing.infos[1].id
    /\ calls[i].file \in DOMAIN dir
    /\ Contains(calls[i].args.slug, <<"a", "-", "a">>)

(***************************************************************************)
(* C2: over file names with distinct eight-digit date prefixes the         *)
(* summaries are returned newest first: the date of an entry is not        *)
(* smaller than the date of the entry after it.                            *)
(***************************************************************************)
DistinctDatePrefixes(files) ==
  /\ \A i \in 1..Len(files) : WellFormedName(files[i])
  /\ \A i, j \in 1..Len(files) : DatePrefix(files[i]) = DatePrefix(files[j]) => i = j

C2_NewestFirst ==
  (listing.status = "returned" /\ DistinctDatePrefixes(listing.files))
    => \A i \in 1..(Len(listing.infos) - 1) :
         DigitsValue(DateKey(listing.infos[i].id))
           >= DigitsValue(DateKey(listing.infos[i + 1].id))

\* three posts of three different dates have been listed
C2_Witness ==
  /\ listing.status = "returned"
  /\ DistinctDatePrefixes(listing.files)
  /\ Len(listing.infos) = 3

(***************************************************************************)
(* C3: getPostById on the id derived from an existing well-formed file     *)
(* returns the title, date and prenote of that file's front-matter, and no *)
(* prenote when the front-matter has none.                                 *)
(***************************************************************************)
MatterKeys == {"title", "date", "prenote"}

C3_FrontMatterReturned ==
  \A i \in 1..Len(calls) :
    LET c == calls[i] IN
    (c.file \in DOMAIN dir /\ WellFormedName(c.file) /\ c.args = PostIdOf(c.file))
      => /\ c.status # "rejected"
         /\ c.status = "fulfilled" =>
              /\ {"title", "date"} \subseteq DOMAIN c.result
              /\ \A key \in MatterKeys :
                   /\ key \in DOMAIN c.result <=> HasHeaderKey(dir[c.file], key)
                   /\ key \in DOMAIN c.result =>
                        c.result[key] = HeaderValue(dir[c.file], key)

\* one post with a prenote and one without have been returned
C3_Witness ==
  /\ \E i \in Fulfilled : "prenote" \in DOMAIN calls[i].result
  /\ \E i \in Fulfilled : "prenote" \notin DOMAIN calls[i].result

(***************************************************************************)
(* C4: getPostById on an id without a file fails with the file-not-found   *)
(* error; the processor is not invoked and nothing is returned.            *)
(***************************************************************************)
C4_MissingFileRejects ==
  \A i \in 1..Len(calls) :
    calls[i].file \notin DOMAIN dir
      => /\ calls[i].status = "rejected"
         /\ calls[i].error = "ENOENT"
         /\ ~calls[i].processed
         /\ calls[i].tree = NoTree
         /\ calls[i].html = <<>>
         /\ calls[i].result = <<>>

\* a call for a missing file has been rejected, and a later call served
C4_Witness ==
  /\ Len(calls) = 2
  /\ calls[1].file \notin DOMAIN dir
  /\ calls[1].status = "rejected"
  /\ calls[2].status = "fulfilled"

(***************************************************************************)
(* C5: rendering is deterministic: two renders of the same body give the   *)
(* same HTML, which is the HTML of a processor that rendered nothing       *)
(* before, whatever was rendered before or between.                        *)
(***************************************************************************)
C5_RenderDeterministic ==
  /\ \A i \in Fulfilled : calls[i].html = FreshHtml(calls[i].content)
  /\ \A i, j \in Fulfilled :
       calls[i].content = calls[j].content => calls[i].html = calls[j].html

\* a body with headings has been rendered after another render with headings
C5_Witness ==
  /\ Len(calls) = 2
  /\ Fulfilled = {1, 2}
  /\ HasHeading(calls[1].content)
  /\ HasHeading(calls[2].content)
  /\ slugs # <<>>

(***************************************************************************)
(* C6: the detail page validates the id before it calls getPostById: for   *)
(* an id that is not four segments with a 4-digit year and 2-digit month   *)
(* and day, getPostById is not invoked and Post answers not-found.         *)
(***************************************************************************)
C6_GuardBeforeResolve ==
  \A p \in 1..Len(pages) :
    ~isValidPostId(pages[p].id)
      => /\ pages[p].call = 0
         /\ pages[p].entry = "Post" => pages[p].outcome = "notFound"

(***************************************************************************)
(* C7: every raw HTML node of the parsed body is carried through the       *)
(* later stages and appears verbatim, unescaped, in the returned HTML.     *)
(***************************************************************************)
RawValues(content) ==
  {remarkParse(content)[i].value :
     i \in {j \in 1..Len(remarkParse(content)) : remarkParse(content)[j].type = "html"}}

C7_RawHtmlVerbatim ==
  \A i \in Fulfilled : \A raw \in RawValues(calls[i].content) :
    /\ \E k \in 1..Len(calls[i].tree) :
         calls[i].tree[k].type = "raw" /\ calls[i].tree[k].value = raw
    /\ Contains(calls[i].html, raw)

(***************************************************************************)
(* C8: the intro of a summary is the body from its start up to and         *)
(* including the first line break after the leading whitespace, so that it *)
(* holds the first text line in full.                                      *)
(***************************************************************************)
LeadingSpace(content) == Len(content) - Len(TrimStart(content))

FirstLineWithBreak(content) ==
  SubSeq(content, 1, LeadingSpace(content) + IndexOf(TrimStart(content), "\n") + 1)

C8_IntroIsFirstLine ==
  listing.status = "returned" =>
    \A i \in 1..Len(listing.infos) :
      LET content == parseMatter(dir[listing.files[i]]).content IN
      IndexOf(TrimStart(content), "\n") # -1
        => listing.infos[i].intro = FirstLineWithBreak(content)

(***************************************************************************)
(* C9: every heading of a rendered document has an anchor id derived from  *)
(* its text and its content is wrapped in a link to "#" and that id.       *)
(* As claimed, the id is the text in lower case with whitespace and        *)
(* punctuation normalized to hyphens.  As amended, the id is the text in   *)
(* lower case with punctuation deleted and every space replaced by a       *)
(* hyphen, followed by -n when an earlier heading took that id.            *)
(***************************************************************************)
IsSeparator(c) == c = " " \/ c = "-" \/ SlugDeleted(c)

\* runs of whitespace and punctuation as one hyphen, none at either end
RECURSIVE Hyphenated(_, _, _)
Hyphenated(value, pending, started) ==
  IF Len(value) = 0 THEN <<>>
  ELSE LET c == Lower(value[1]) IN
       IF IsSeparator(c) THEN Hyphenated(Tail(value), started, started)
       ELSE (IF pending THEN <<"-">> ELSE <<>>) \o <<c>>
            \o Hyphenated(Tail(value), FALSE, TRUE)

KeptInSlug(c) == ~SlugDeleted(Lower(c))
PunctuationDeleted(value) ==
  LET kept == SelectSeq(value, KeptInSlug)
  IN  [i \in 1..Len(kept) |-> IF kept[i] = " " THEN "-" ELSE Lower(kept[i])]

\* base, or base-n for some n >= 1
IsBaseOrSuffixed(id, base) ==
  \/ id = base
  \/ \E n \in 1..Len(id) : id = base \o <<"-">> \o NumStr(n)

\* the heading holds one link, to its own id, around the heading's text
SelfLinked(h) ==
  /\ h.hasId
  /\ Len(h.children) = 1
  /\ h.children[1].type = "element"
  /\ h.children[1].tag = "a"
  /\ h.children[1].href = <<"#">> \o h.id
  /\ \A k \in 1..Len(h.children[1].children) : h.children[1].children[k].type = "text"

\* the headings of the document are the headings of the body, in order
HeadingsKept(c) ==
  LET md == SelectSeq(remarkParse(c.content), LAMBDA n : n.type = "heading")
      hs == SelectSeq(c.tree, IsHeadingElement)
  IN  /\ Len(md) = Len(hs)
      /\ \A k \in 1..Len(md) : NodeText(hs[k]) = md[k].value

C9_HeadingAnchorsHyphenated ==
  \A i \in Fulfilled : \A k \in Headings(calls[i].tree) :
    LET h == calls[i].tree[k] IN
    /\ SelfLinked(h)
    /\ IsBaseOrSuffixed(h.id, Hyphenated(NodeText(h), FALSE, FALSE))

C9_HeadingAnchors ==
  \A i \in Fulfilled :
    /\ HeadingsKept(calls[i])
    /\ \A k \in Headings(calls[i].tree) :
         LET h == calls[i].tree[k] IN
         /\ SelfLinked(h)
         /\ IsBaseOrSuffixed(h.id, PunctuationDeleted(NodeText(h)))
         /\ Contains(calls[i].html,
                     Attr(<<"i", "d">>, h.id) \o <<">", "<", "a">>
                     \o Attr(<<"h", "r", "e", "f">>, <<"#">> \o h.id) \o <<">">>)

\* "Hello, World!" has been rendered with the id hello-world
C9_Witness ==
  \E i \in Fulfilled : \E k \in Headings(calls[i].tree) :
    /\ NodeText(calls[i].tree[k])
         = <<"H", "e", "l", "l", "o", ",", " ", "W", "o", "r", "l", "d", "!">>
    /\ calls[i].tree[k].id = <<"h", "e", "l", "l", "o", "-", "w", "o", "r", "l", "d">>

(***************************************************************************)
(* C10: the heading ids of one rendered document are pairwise distinct,    *)
(* also when a heading's own text is an id an earlier suffix produced.     *)
(***************************************************************************)
C10_HeadingIdsDistinct ==
  \A i \in Fulfilled : \A k, l \in Headings(calls[i].tree) :
    calls[i].tree[k].id = calls[i].tree[l].id => k = l

\* two headings "in" and a heading "in-1" have been rendered in one document
C10_Witness ==
  \E i \in Fulfilled : \E k, l, m \in Headings(calls[i].tree) :
    /\ k < l /\ l < m
    /\ NodeText(calls[i].tree[k]) = NodeText(calls[i].tree[l])
    /\ NodeText(calls[i].tree[m]) = calls[i].tree[l].id

(***************************************************************************)
(* C11: a fenced code block without a language, or in a language the       *)
(* highlighter does not have, is rendered without an error as a            *)
(* preformatted block of its text with no highlighting style, and the      *)
(* headings and paragraphs around it are rendered as in any document.      *)
(***************************************************************************)
NodesOf(content, type) ==
  SelectSeq(remarkParse(content), LAMBDA n : n.type = type)

StyleAttr == <<" ", "s", "t", "y", "l", "e", "=">>

\* the text of a block in one span without attributes, inside code and pre
PlainBlock(value) ==
  <<"<", "s", "p", "a", "n", ">">> \o Escape(value \o <<"\n">>)
  \o <<"<", "/", "s", "p", "a", "n", ">", "<", "/", "c", "o", "d", "e", ">",
       "<", "/", "p", "r", "e", ">">>

Paragraph(value) == <<"<", "p", ">">> \o Escape(value) \o <<"<", "/", "p", ">">>

Unhighlighted(n) == n.lang \notin SupportedLangs

C12_RenderNeverFails ==
  \A i \in 1..Len(calls) :
    LET c == calls[i] IN
    c.processed =>
      /\ c.status # "rejected"
      /\ c.error = "none"
      /\ c.status = "pending" => CallSettle(c).status = "fulfilled"
      /\ c.status = "fulfilled" =>
           /\ "html" \in DOMAIN c.result
           /\ c.result.html = c.html
           /\ c.html = FreshHtml(c.content)

\* a body with a fence and a tag that are never closed has been rendered
C12_Witness ==
  \E i \in Fulfilled :
    /\ calls[i].content = BodyOpen
    /\ Len(calls[i].html) > 0

(***************************************************************************)
(* C13: a file whose header is opened and never closed makes getPostById   *)
(* reject and getPostInfosOrderedByDateDesc throw with the parse error;    *)
(* neither returns a post or a summary for it.                             *)
(***************************************************************************)
UnclosedHeader(text) ==
  /\ Len(text) > 0
  /\ text[1] = Delim
  /\ \A i \in 2..Len(text) : text[i] # Delim

C13_UnclosedHeaderFails ==
  /\ \A i \in 1..Len(calls) :
       LET c == calls[i] IN
       (c.file \in DOMAIN c.seen /\ UnclosedHeader(c.seen[c.file]))
         => c.status = "rejected" /\ c.error = "YAMLException"
  /\ (listing.status # "none"
       /\ \E n \in DOMAIN listing.seen : UnclosedHeader(listing.seen[n]))
        => listing.status = "threw" /\ listing.error = "YAMLException"

(***************************************************************************)
(* C14: when getPostById rejects for an id that passes the guard, the      *)
(* rejection reaches the detail page uncaught and the outcome of Post is   *)
(* the not-found page.                                                     *)
(***************************************************************************)
C14_FailureIsNotFound ==
  \A p \in 1..Len(pages) :
    (/\ pages[p].guarded
     /\ pages[p].entry = "Post"
     /\ isValidPostId(pages[p].id)
     /\ pages[p].call \in 1..Len(calls)
     /\ calls[pages[p].call].status = "rejected")
      => pages[p].outcome = "notFound"

(***************************************************************************)
(* C15: generateStaticParams gives one id array per post file, each file   *)
(* exactly once, as [year, month, day, slug], the four segments of the     *)
(* link Home renders for that post; for a file named YYYYMMDD-slug.md the  *)
(* array passes isValidPostId and Post on it reads that file and renders.  *)
(***************************************************************************)
\* the segments of a path, without the empty one before the first slash
PathSegments(path) == Tail(Split(path, "/"))

PagesOf(n) == {p \in 1..Len(pages) : pages[p].id = IdSegments(PostIdOf(n))}

C15_StaticParams ==
  listing.status = "returned" =>
    /\ Len(params) = Cardinality(DOMAIN dir)
    /\ \A n \in DOMAIN dir :
         Cardinality({i \in 1..Len(params) : params[i] = IdSegments(PostIdOf(n))}) = 1
    /\ \A i \in 1..Len(params) :
         /\ Len(params[i]) = 4
         /\ params[i] = IdSegments(listing.infos[i].id)
         /\ params[i] = PathSegments(HomeLink(listing.infos[i].id))
         /\ WellFormedName(listing.files[i]) => isValidPostId(params[i])
    /\ \A n \in DOMAIN dir : \A p \in PagesOf(n) :
         WellFormedName(n) =>
           /\ pages[p].call \in 1..Len(calls)
           /\ calls[pages[p].call].file = n
           /\ calls[pages[p].call].status # "rejected"
           /\ pages[p].outcome \in {"pending", "rendered"}

\* three posts have been enumerated and the page of one whose slug holds a
\* hyphen has been rendered from its parameters
C15_Witness ==
  /\ listing.status = "returned"
  /\ Len(params) = 3
  /\ \E p \in PagesOf(NameB) :
       /\ pages[p].id \in {params[i] : i \in 1..Len(params)}
       /\ pages[p].outcome = "rendered"

(***************************************************************************)
(* C16: however calls of getPostById and getPostInfosOrderedByDateDesc     *)
(* overlap or follow one another, each call gives the outcome it gives     *)
(* when it is the only call made against the same files.                   *)
(***************************************************************************)
\* the call on args as the only call of a process that has done nothing
Alone(fs, args) ==
  LET c == CallStart(fs, args, <<>>, <<>>).call
  IN  IF c.status = "pending" THEN CallSettle(c) ELSE c

SameOutcome(c, d) ==
  /\ c.status = d.status
  /\ c.error = d.error
  /\ c.result = d.result

C16_SameAsAlone ==
  /\ \A i \in 1..Len(calls) :
       calls[i].status # "pending"
         => SameOutcome(calls[i], Alone(calls[i].seen, calls[i].args))
  /\ listing.status # "none"
       => listing = PostInfos(listing.seen, <<>>, listing.entries).listing

(***************************************************************************)
(* C17: no step of getPostById or getPostInfosOrderedByDateDesc, whether   *)
(* it succeeds or fails, changes the posts directory: the set of files and *)
(* the text of each file stay as they are.                                 *)
(***************************************************************************)
C17_ReadOnly == [][dir' = dir]_vars

\* a call for a missing file has been rejected, a call has been fulfilled
\* and the listing has been made, over the directory as it still is
C17_Witness ==
  /\ \E i \in 1..Len(calls) :
       calls[i].status = "rejected" /\ calls[i].error = "ENOENT" /\ calls[i].seen = dir
  /\ \E i \in Fulfilled : calls[i].seen = dir
  /\ listing.status # "none"
  /\ listing.seen = dir

(***************************************************************************)
(* C18: a getPostById call reads one file, the source file of the post,    *)
(* once, and before the render starts; the render, from its start to the   *)
(* end of the call, reads no file and makes no other call out.             *)
(***************************************************************************)
Reads(trace) == {k \in 1..Len(trace) : trace[k].op = "readFileSync"}
Renders(trace) == {k \in 1..Len(trace) : trace[k].op \in {"process", "resume"}}

FromFile(c) ==
  IF c.file \notin DOMAIN c.seen
  THEN c.status = "rejected" /\ c.error = "ENOENT"
  ELSE LET m == parseMatter(c.seen[c.file]) IN
       IF m.err # "none"
       THEN c.status = "rejected" /\ c.error = m.err
       ELSE /\ c.status # "rejected"
            /\ c.data = m.data
            /\ c.content = m.content
            /\ c.status = "fulfilled" => c.result = PostResult(FreshHtml(m.content), m.data)

FromFiles(l) ==
  LET failing == {n \in DOMAIN l.seen : parseMatter(l.seen[n]).err # "none"}
  IN  /\ {l.files[j] : j \in 1..Len(l.files)} = DOMAIN l.seen
      /\ l.status = "threw" <=> failing # {}
      /\ l.status = "returned" =>
           /\ Len(l.infos) = Len(l.files)
           /\ \A j \in 1..Len(l.infos) :
                l.infos[j] = PostInfo(l.files[j], parseMatter(l.seen[l.files[j]]))

C19_RecomputedFromFiles ==
  /\ \A i \in 1..Len(calls) : FromFile(calls[i])
  /\ listing.status # "none" => FromFiles(listing)

(***************************************************************************)
(* C20: for a post whose body holds no line break at all the listing is    *)
(* still returned and the intro of that post is the empty string.          *)
(***************************************************************************)
NoLineBreak(content) == \A k \in 1..Len(content) : content[k] # "\n"

BodyOf(l, j) == parseMatter(l.seen[l.files[j]]).content

C20_IntroEmptyWithoutLineBreak ==
  listing.status # "none" =>
    /\ (\A n \in DOMAIN listing.seen : parseMatter(listing.seen[n]).err = "none")
         => listing.status = "returned"
    /\ listing.status = "returned" =>
         \A j \in 1..Len(listing.infos) :
           (Len(BodyOf(listing, j)) > 0 /\ NoLineBreak(BodyOf(listing, j)))
             => /\ "intro" \in DOMAIN listing.infos[j]
                /\ listing.infos[j].intro = <<>>

\* a post with the body "ab" has been listed next to a post with an intro
C20_Witness ==
  /\ listing.status = "returned"
  /\ \E j \in 1..Len(listing.infos) :
       BodyOf(listing, j) = BodyFlat /\ listing.infos[j].intro = <<>>
  /\ \E j \in 1..Len(listing.infos) : Len(listing.infos[j].intro) > 0

(***************************************************************************)
(* C21: in every render the six stages run once each in the order parse,   *)
(* convert to an HTML tree, assign heading ids, wrap headings in links,    *)
(* highlight code, serialize, each on the output of the one before: the    *)
(* tree a pending call holds is the linked tree of its body, a heading's   *)
(* link targets the id the slug stage gave that heading, the tree of a     *)
(* fulfilled call is the highlighted linked tree and its HTML is that tree *)
(* serialized.                                                             *)
(***************************************************************************)
\* the tree after the four synchronous stages of a fresh run
LinkedTree(content) ==
  rehypeAutolinkHeadings(
    rehypeSlug(remarkRehype(remarkParse(content), TRUE), <<>>).nodes, "wrap")

IsFigure(n) == n.type = "element" /\ n.tag = "figure"

C21_StagesInOrder ==
  \A i \in 1..Len(calls) :
    calls[i].processed =>
      /\ calls[i].trace[2] = Event("process", calls[i].content)
      /\ calls[i].status = "pending" =>
           /\ Len(calls[i].trace) = 2
           /\ calls[i].tree = LinkedTree(calls[i].content)
           /\ calls[i].html = <<>>
      /\ calls[i].status = "fulfilled" =>
           /\ Len(calls[i].trace) = 3
           /\ calls[i].tree = rehypePrettyCode(LinkedTree(calls[i].content)).tree
           /\ calls[i].html = rehypeStringify(calls[i].tree, FALSE)
           /\ Len(calls[i].tree) = Len(remarkRehype(remarkParse(calls[i].content), TRUE))
           /\ \A k \in Headings(calls[i].tree) : SelfLinked(calls[i].tree[k])
           /\ \A k \in 1..Len(calls[i].tree) :
                IsFigure(calls[i].tree[k]) <=> IsBlockCode(LinkedTree(calls[i].content)[k])

\* a document with a heading and a code block has gone through all six
\* stages, the heading linked to its id and the block made a figure
C21_Witness ==
  \E i \in Fulfilled :
    /\ \E k \in Headings(calls[i].tree) :
         calls[i].tree[k].children[1].href = <<"#">> \o calls[i].tree[k].id
    /\ \E k \in 1..Len(calls[i].tree) :
         IsFigure(calls[i].tree[k]) /\ calls[i].tree[k].children[1].tag = "pre"
    /\ Contains(calls[i].html, <<"<", "f", "i", "g", "u", "r", "e">>)

(***************************************************************************)
(* C22: front-matter cannot replace the derived fields: whatever keys the  *)
(* header of a file has, the html getPostById returns is the HTML the      *)
(* processor gave for the body, and the id and intro of the file's summary *)
(* are the ones derived from the file name and the body.                   *)
(***************************************************************************)
C22_DerivedFieldsKept ==
  /\ \A i \in Fulfilled :
       /\ "html" \in DOMAIN calls[i].result
       /\ calls[i].result.html = calls[i].html
  /\ listing.status = "returned" =>
       \A j \in 1..Len(listing.infos) :
         /\ listing.infos[j].id = PostIdOf(listing.files[j])
         /\ listing.infos[j].intro = IntroOf(BodyOf(listing, j))

(***************************************************************************)
(* C23: for every id that passes isValidPostId, whatever its slug holds,   *)
(* path separators and .. segments included, the path getPostById reads is *)
(* a file directly inside the posts directory.                             *)
(***************************************************************************)
\* posts/name for a name that is one segment and no . or ..
DirectlyInPosts(path) ==
  /\ Len(Split(path, "/")) = 2
  /\ Split(path, "/")[1] = postsDir
  /\ Split(path, "/")[2] \notin {<<>>, <<".">>, <<".", ".">>}

C23_PathConfined ==
  \A p \in 1..Len(pages) :
    (/\ isValidPostId(pages[p].id)
     /\ pages[p].call \in 1..Len(calls))
      => DirectlyInPosts(calls[pages[p].call].path)

(***************************************************************************)
(* C24: for every entry name of the posts directory, well formed or not,   *)
(* the id the listing derives for it passes isValidPostId and makes        *)
(* getPostById read that entry, so that the page of every listed post      *)
(* resolves.                                                               *)
(***************************************************************************)
C24_ListedIdResolves ==
  listing.status = "returned" =>
    \A j \in 1..Len(listing.infos) :
      /\ isValidPostId(IdSegments(listing.infos[j].id))
      /\ PathJoin(postsDir, PostFileName(listing.infos[j].id))
           = postsDir \o <<"/">> \o listing.files[j]
      /\ \A p \in 1..Len(pages) :
           pages[p].id = IdSegments(listing.infos[j].id)
             => /\ pages[p].outcome # "notFound"
                /\ pages[p].call \in 1..Len(calls)
                /\ calls[pages[p].call].file = listing.files[j]

(***************************************************************************)
(* C25: getPostInfosOrderedByDateDesc is all or nothing: a call that       *)
(* returns gives one summary per entry of the posts directory, none left   *)
(* out and none twice; a call in which the read or the parse of an entry   *)
(* fails throws and gives no summaries at all.                             *)
(***************************************************************************)
\* the entries whose parse fails in a call made with matter.cache as mc
FailingEntries(fs, mc) ==
  {n \in DOMAIN fs : fs[n] \notin DOMAIN mc /\ parseMatter(fs[n]).err # "none"}

OnePerEntry(l, mc) ==
  /\ Len(l.infos) = Cardinality(DOMAIN l.seen)
  /\ Len(l.files) = Len(l.infos)
  /\ \A n \in DOMAIN l.seen : Cardinality({j \in 1..Len(l.files) : l.files[j] = n}) = 1
  /\ \A j \in 1..Len(l.infos) :
       l.infos[j] = PostInfo(l.files[j], readMatter(l.seen, mc, l.files[j]))

C25_AllOrNothing ==
  [][listing' # listing =>
       /\ listing'.status \in {"returned", "threw"}
       /\ listing'.status = "threw" <=> FailingEntries(listing'.seen, cache) # {}
       /\ listing'.status = "threw" => listing'.infos = <<>> /\ listing'.error # "none"
       /\ listing'.status = "returned" => OnePerEntry(listing', cache')]_vars

\* a call has thrown at the second of two entries and has given no summary
\* of the first
C25_Witness ==
  /\ listing.status = "threw"
  /\ Len(listing.files) = 2
  /\ parseMatter(listing.seen[listing.files[1]]).err = "none"
  /\ parseMatter(listing.seen[listing.files[2]]).err # "none"
  /\ listing.infos = <<>>

(***************************************************************************)
(* C26: the order of the listing depends on the set of file names alone,   *)
(* not on the order in which the directory is enumerated: the summaries    *)
(* follow the full file names in descending lexicographic order.           *)
(* As claimed, posts with the same date prefix are therefore in descending *)
(* order of their slugs.  As amended, they are in descending order of the  *)
(* rest of the file name, the slug followed by .md, which is not the order *)
(* of the slugs when one slug is the other followed by a hyphen.           *)
(***************************************************************************)
SameDate(l, j, k) ==
  /\ WellFormedName(l.files[j])
  /\ WellFormedName(l.files[k])
  /\ DatePrefix(l.files[j]) = DatePrefix(l.files[k])

\* the order of the files is that of every enumeration of the directory,
\* sorted and reversed, and it is descending
ByFileNameDescending(l) ==
  /\ {l.files[j] : j \in 1..Len(l.files)} = DOMAIN l.seen
  /\ \A e \in Enumerations(DOMAIN l.seen) : OrderedFileNames(e) = l.files
  /\ \A j, k \in 1..Len(l.files) : j < k => StrLess(l.files[k], l.files[j])
  /\ \A j \in 1..Len(l.infos) : l.infos[j].id = PostIdOf(l.files[j])

OfOneFile(info, fn, text) ==
  /\ info.id = PostIdOf(fn)
  /\ info.intro = IntroOf(parseMatter(text).content)
  /\ \A key \in MatterKeys :
       /\ key \in DOMAIN info <=> HasHeaderKey(text, key)
       /\ key \in DOMAIN info => info[key] = HeaderValue(text, key)

C27_SummaryOfOneFile ==
  listing.status = "returned" =>
    /\ Len(listing.infos) = Len(listing.files)
    /\ \A j \in 1..Len(listing.infos) :
         OfOneFile(listing.infos[j], listing.files[j], listing.seen[listing.files[j]])

\* posts that differ in title, intro and prenote have been listed together
C27_Witness ==
  /\ listing.status = "returned"
  /\ \E j, k \in 1..Len(listing.infos) :
       /\ listing.infos[j].title # listing.infos[k].title
       /\ listing.infos[j].intro # listing.infos[k].intro
       /\ "prenote" \in DOMAIN listing.infos[j]
       /\ "prenote" \notin DOMAIN listing.infos[k]

(***************************************************************************)
(* C28: every getPostById call settles: a call that is pending is, at some *)
(* later time, fulfilled with a result that has html and the front-matter  *)
(* of its file, or rejected with an error, whatever other calls are made   *)
(* or pending meanwhile.                                                   *)
(***************************************************************************)
IsPending(i) == i <= Len(calls) /\ calls[i].status = "pending"

HasSettled(i) ==
  /\ i <= Len(calls)
  /\ \/ calls[i].status = "rejected" /\ calls[i].error # "none"
     \/ /\ calls[i].status = "fulfilled"
        /\ DOMAIN calls[i].result = {"html"} \cup DOMAIN calls[i].data
        /\ calls[i].result.html = calls[i].html
        /\ \A key \in DOMAIN calls[i].data : calls[i].result[key] = calls[i].data[key]

C28_EveryCallSettles == \A i \in 1..MaxCalls : IsPending(i) ~> HasSettled(i)

\* two calls were pending together and both have settled
C28_Witness ==
  /\ Len(calls) = 2
  /\ HasSettled(1)
  /\ HasSettled(2)
  /\ calls[1].status = "fulfilled"
  /\ Len(calls[2].trace) = 3
  /\ calls[2].seen = calls[1].seen

====
